---- MODULE Spec2Model ----
(***************************************************************************)
(* A model of dhpoware/poker (src/poker.py): the card model, CardDeck,     *)
(* PokerHandEvaluator, PokerHand and the game loop of main.                *)
(*                                                                         *)
(* Values.  A CardRank or CardSuit member is its integer value.  A Card is *)
(* the tuple <<rank, suit>> (Card subclasses tuple).  A method's return    *)
(* value is a tuple: None is <<>>, a rank r is <<r>>, a tuple of two ranks *)
(* is <<a, b>> and a Card is <<rank, suit>>; a value is truthy iff it is   *)
(* not None (Enum members and non-empty tuples are all truthy).            *)
(***************************************************************************)
EXTENDS Integers, Sequences, FiniteSets, TLC

VARIABLES
    cards,      \* PokerHandEvaluator.cards: the list handed to the evaluator
    op,         \* the method called last ("new": none yet)
    arg,        \* its argument, as a tuple (<<>>: none)
    ret,        \* what the call returned (None when it raised)
    raised,     \* the exception the call raised ("": none)
    deck,       \* CardDeck.cards
    hand,       \* PokerHand.__cards (<<>>: no PokerHand exists)
    dealt,      \* history: the cards the deck delivered since it was created
    pc,         \* main: the statement the game loop is at
    evals,      \* history: evaluate() calls on the hand dealt last
    again       \* history: the evaluator had been called before the last call

vars ==
    <<cards, op, arg, ret, raised, deck, hand, dealt, pc, evals, again>>

----------------------------------------------------------------------------
(* The card model, src/poker.py lines 32-114.                              *)

CLUBS == 1
DIAMONDS == 2
HEARTS == 3
SPADES == 4
CardSuit == CLUBS..SPADES

DEUCE == 2
TREY == 3
FOUR == 4
FIVE == 5
ACE == 14
CardRank == DEUCE..ACE

Card == CardRank \X CardSuit

None == <<>>
Truthy(v) == v # None

\* Card inherits tuple's comparison: by rank value, then by suit value.
CardLess(a, b) == a[1] < b[1] \/ (a[1] = b[1] /\ a[2] < b[2])

----------------------------------------------------------------------------
(* Python built-ins the evaluator uses.                                    *)

Front(s) == SubSeq(s, 1, Len(s) - 1)
Last(s) == s[Len(s)]

RECURSIVE InsertAsc(_, _)
InsertAsc(c, s) ==
    IF s = <<>> THEN <<c>>
    ELSE IF CardLess(c, Head(s)) THEN <<c>> \o s
    ELSE <<Head(s)>> \o InsertAsc(c, Tail(s))

\* sorted(cards): a new ascending list (stable); the argument is not changed.
RECURSIVE sorted(_)
sorted(s) == IF s = <<>> THEN <<>> ELSE InsertAsc(Last(s), sorted(Front(s)))

RECURSIVE InsertDesc(_, _)
InsertDesc(c, s) ==
    IF s = <<>> THEN <<c>>
    ELSE IF CardLess(Head(s), c) THEN <<c>> \o s
    ELSE <<Head(s)>> \o InsertDesc(c, Tail(s))

\* sorted(cards, reverse=True): a new descending list (stable).
RECURSIVE sorted_reverse(_)
sorted_reverse(s) ==
    IF s = <<>> THEN <<>> ELSE InsertDesc(Last(s), sorted_reverse(Front(s)))

\* The keys of Counter(card.rank for card in cs), in insertion order: each
\* rank at the place of its first occurrence in the list.
RECURSIVE CounterKeys(_)
CounterKeys(cs) ==
    IF cs = <<>> THEN <<>>
    ELSE LET k == CounterKeys(Front(cs))
             r == Last(cs)[1]
         IN  IF \E i \in 1..Len(k) : k[i] = r THEN k ELSE Append(k, r)

Occurrences(cs, r) == Cardinality({i \in 1..Len(cs) : cs[i][1] = r})

\* Counter(card.rank for card in cs).items(): <<rank, occurrences>> pairs.
CounterItems(cs) ==
    LET k == CounterKeys(cs)
    IN  [i \in 1..Len(k) |-> <<k[i], Occurrences(cs, k[i])>>]

Is4(item) == item[2] = 4
Is3(item) == item[2] = 3
Is2(item) == item[2] = 2
IsDup(item) == item[2] > 1

----------------------------------------------------------------------------
(* PokerHandEvaluator, src/poker.py lines 166-278.                         *)

high_card(cs) == sorted_reverse(cs)[1]

is_four_of_a_kind(cs) ==
    LET hits == SelectSeq(CounterItems(cs), Is4)
    IN  IF hits # <<>> THEN <<hits[1][1]>> ELSE None

is_full_house(cs) ==
    LET three_matching_cards == SelectSeq(CounterItems(cs), Is3)
        two_matching_cards == SelectSeq(CounterItems(cs), Is2)
    IN  IF Len(three_matching_cards) = 1 /\ Len(two_matching_cards) = 1
        THEN <<three_matching_cards[1][1], two_matching_cards[1][1]>>
        ELSE None

is_flush(cs) ==
    LET suits_set == {cs[i][2] : i \in 1..Len(cs)}
    IN  IF Cardinality(suits_set) = 1 THEN <<Last(sorted(cs))[1]>> ELSE None

\* Mutant: the Ace also counted low, so that A-2-3-4-5 is a five-high straight.
is_straight_with_low_ace(cs) ==
    LET contains_duplicates == SelectSeq(CounterItems(cs), IsDup) # <<>>
        sorted_hand_ranks == [i \in 1..Len(cs) |-> sorted(cs)[i][1]]
    IN  IF ~contains_duplicates
        THEN IF Last(sorted_hand_ranks) - sorted_hand_ranks[1] = 4
             THEN <<Last(sorted_hand_ranks)>>
             ELSE IF {sorted_hand_ranks[i] : i \in 1..Len(cs)}
                        = {ACE, DEUCE, TREY, FOUR, FIVE}
             THEN <<FIVE>>
             ELSE None
        ELSE None

\* Mutant: the duplicate-rank test left out.
is_straight_without_duplicate_test(cs) ==
    LET sorted_hand_ranks == [i \in 1..Len(cs) |-> sorted(cs)[i][1]]
    IN  IF Last(sorted_hand_ranks) - sorted_hand_ranks[1] = 4
        THEN <<Last(sorted_hand_ranks)>>
        ELSE None

is_straight(cs) ==
    LET contains_duplicates == SelectSeq(CounterItems(cs), IsDup) # <<>>
        sorted_hand_ranks == [i \in 1..Len(cs) |-> sorted(cs)[i][1]]
    IN  IF ~contains_duplicates
        THEN IF Last(sorted_hand_ranks) - sorted_hand_ranks[1] = 4
             THEN <<Last(sorted_hand_ranks)>>
             ELSE None
        ELSE None

is_straight_flush(cs) ==
    IF Truthy(is_straight(cs)) /\ Truthy(is_flush(cs))
    THEN <<high_card(cs)[1]>>
    ELSE None

\* Mutant: a rank of multiplicity 3 counts only when no rank has multiplicity 2.
is_three_of_a_kind_without_pair(cs) ==
    LET hits == SelectSeq(CounterItems(cs), Is3)
    IN  IF hits # <<>> /\ SelectSeq(CounterItems(cs), Is2) = <<>>
        THEN <<hits[1][1]>>
        ELSE None

is_three_of_a_kind(cs) ==
    LET hits == SelectSeq(CounterItems(cs), Is3)
    IN  IF hits # <<>> THEN <<hits[1][1]>> ELSE None

is_one_pair(cs) ==
    LET total_pairs == SelectSeq(CounterItems(cs), Is2)
    IN  IF Len(total_pairs) = 1 THEN <<total_pairs[1][1]>> ELSE None

is_two_pairs(cs) ==
    LET total_pairs == SelectSeq(CounterItems(cs), Is2)
    IN  IF Len(total_pairs) = 2
        THEN <<total_pairs[1][1], total_pairs[2][1]>>
        ELSE None

----------------------------------------------------------------------------
(* PokerHand.evaluate, src/poker.py lines 304-342: the message printed, as *)
(* the category named in it and the value formatted into it.               *)

Report(category, value) == [category |-> category, value |-> value]

\* Mutant: three of a kind tested before full house.
evaluate_three_of_a_kind_first(cs) ==
    IF Truthy(is_straight_flush(cs))
    THEN Report("straight flush", is_straight_flush(cs))
    ELSE IF Truthy(is_four_of_a_kind(cs))
    THEN Report("four of a kind", is_four_of_a_kind(cs))
    ELSE IF Truthy(is_three_of_a_kind(cs))
    THEN Report("three of a kind", is_three_of_a_kind(cs))
    ELSE IF Truthy(is_full_house(cs))
    THEN Report("full house", is_full_house(cs))
    ELSE IF Truthy(is_flush(cs))
    THEN Report("flush", is_flush(cs))
    ELSE IF Truthy(is_straight(cs))
    THEN Report("straight", is_straight(cs))
    ELSE IF Truthy(is_two_pairs(cs))
    THEN Report("two pairs", is_two_pairs(cs))
    ELSE IF Truthy(is_one_pair(cs))
    THEN Report("one pair", is_one_pair(cs))
    ELSE Report("high card", high_card(cs))

evaluate(cs) ==
    IF Truthy(is_straight_flush(cs))
    THEN Report("straight flush", is_straight_flush(cs))
    ELSE IF Truthy(is_four_of_a_kind(cs))
    THEN Report("four of a kind", is_four_of_a_kind(cs))
    ELSE IF Truthy(is_full_house(cs))
    THEN Report("full house", is_full_house(cs))
    ELSE IF Truthy(is_flush(cs))
    THEN Report("flush", is_flush(cs))
    ELSE IF Truthy(is_straight(cs))
    THEN Report("straight", is_straight(cs))
    ELSE IF Truthy(is_three_of_a_kind(cs))
    THEN Report("three of a kind", is_three_of_a_kind(cs))
    ELSE IF Truthy(is_two_pairs(cs))
    THEN Report("two pairs", is_two_pairs(cs))
    ELSE IF Truthy(is_one_pair(cs))
    THEN Report("one pair", is_one_pair(cs))
    ELSE Report("high card", high_card(cs))

----------------------------------------------------------------------------
(* CardDeck, src/poker.py lines 122-163.                                   *)

DeckCards == 8
NumShuffles == 2

NumRanks == Cardinality(CardRank)

\* reset(), before the shuffle: for suit in CardSuit: for rank in CardRank:
\* append(Card(rank, suit)), cut to the first n cards built.  main plays
\* with all Cardinality(Card) cards; the callers of the section "A CardDeck
\* and a PokerHand in the hands of any caller" get DeckCards of them.
BuiltDeck(n) ==
    [i \in 1..n |->
        <<DEUCE + ((i - 1) % NumRanks), CLUBS + ((i - 1) \div NumRanks)>>]

Rotate(s, k) == [i \in 1..Len(s) |-> s[((i - 1 + k) % Len(s)) + 1]]

\* shuffle(self.cards): the orders the model draws from.
Shuffles(n) == {Rotate(BuiltDeck(n), k) : k \in 0..(NumShuffles - 1)}

Outcome(r, c, d, h) == [raised |-> r, cards |-> c, deck |-> d, hand |-> h]

\* Mutant: the last card is read and left in the deck (cards[-1] for pop()).
deal_card_without_pop(d) ==
    IF Len(d) - 1 > 0
    THEN Outcome("", <<Last(d)>>, d, <<>>)
    ELSE Outcome("OutOfCards", <<>>, d, <<>>)

deal_card(d) ==
    IF Len(d) - 1 > 0
    THEN Outcome("", <<Last(d)>>, Front(d), <<>>)
    ELSE Outcome("OutOfCards", <<>>, d, <<>>)

\* dealt_cards after number_of_cards pops: the deck's last cards, last first.
deal_cards(d, number_of_cards) ==
    IF Len(d) - number_of_cards > 0
    THEN Outcome("",
                 [i \in 1..number_of_cards |-> d[Len(d) + 1 - i]],
                 SubSeq(d, 1, Len(d) - number_of_cards),
                 <<>>)
    ELSE Outcome("OutOfCards", <<>>, d, <<>>)

----------------------------------------------------------------------------
(* PokerHand, src/poker.py lines 281-302.                                  *)

HandSize == 5

PokerHand(d) ==
    LET r == deal_cards(d, HandSize)
    IN  Outcome(r.raised, r.cards, r.deck, r.cards)

\* self.__cards[index-1] = card: Python list indexing, a negative index
\* counting from the end; 0 when the index is out of range (IndexError).
Position(h, index) ==
    LET i == index - 1
    IN  IF 0 <= i /\ i < Len(h) THEN i + 1
        ELSE IF i < 0 /\ i >= 0 - Len(h) THEN i + Len(h) + 1
        ELSE 0

\* for index in card_indices_replace: self.__cards[index-1] = deal_card().
\* The card is popped before the position is assigned; an exception ends the
\* loop and leaves what the earlier iterations did.
RECURSIVE replace_cards(_, _, _)
replace_cards(h, d, card_indices_replace) ==
    IF card_indices_replace = <<>> THEN Outcome("", <<>>, d, h)
    ELSE LET r == deal_card(d)
             p == Position(h, Head(card_indices_replace))
         IN  IF r.raised # "" THEN Outcome(r.raised, <<>>, d, h)
             ELSE IF p = 0 THEN Outcome("IndexError", r.cards, r.deck, h)
             ELSE LET rest == replace_cards([h EXCEPT ![p] = r.cards[1]],
                                            r.deck, Tail(card_indices_replace))
                  IN  Outcome(rest.raised, r.cards \o rest.cards,
                              rest.deck, rest.hand)

----------------------------------------------------------------------------
(* The evaluator on its own: a PokerHandEvaluator built on a list of five  *)
(* cards, and one method called on it.                                     *)

MaxLowRank == 6

EvalCards ==
    {c \in Card : /\ c[1] \in (DEUCE..MaxLowRank) \cup {ACE}
                  /\ (c[1] \in {DEUCE, TREY} \/ c[2] = CLUBS)}

Hands ==
    {h \in [1..HandSize -> EvalCards] :
        \A i, j \in 1..HandSize : i < j => h[i] # h[j]}

Methods == {"is_straight_flush", "is_four_of_a_kind", "is_full_house",
            "is_flush", "is_straight", "is_three_of_a_kind", "is_two_pairs",
            "is_one_pair", "high_card", "evaluate"}

Result(m, cs) ==
    CASE m = "is_straight_flush" -> is_straight_flush(cs)
      [] m = "is_four_of_a_kind" -> is_four_of_a_kind(cs)
      [] m = "is_full_house" -> is_full_house(cs)
      [] m = "is_flush" -> is_flush(cs)
      [] m = "is_straight" -> is_straight(cs)
      [] m = "is_three_of_a_kind" -> is_three_of_a_kind(cs)
      [] m = "is_two_pairs" -> is_two_pairs(cs)
      [] m = "is_one_pair" -> is_one_pair(cs)
      [] m = "high_card" -> high_card(cs)
      [] m = "evaluate" -> evaluate(cs)

\* Mutant: high_card sorts self.cards in place (list.sort) instead of sorted().
CardsAfter_sort_in_place(m, cs) ==
    IF m = "high_card" THEN sorted_reverse(cs) ELSE cs

\* What a method leaves in self.cards: every method reads the list, and
\* sorts with sorted(), which builds a new list.
CardsAfter(m, cs) == cs

NoDeck ==
    /\ deck = <<>> /\ hand = <<>> /\ dealt = <<>>
    /\ pc = "" /\ evals = 0

EvalInit ==
    /\ cards \in Hands
    /\ op = "new" /\ arg = <<>> /\ ret = None /\ raised = "" /\ again = FALSE
    /\ NoDeck

Invoke(m) ==
    /\ op' = m
    /\ ret' = Result(m, cards)
    /\ cards' = CardsAfter(m, cards)
    /\ again' = (op # "new")
    /\ UNCHANGED <<arg, raised, deck, hand, dealt, pc, evals>>

\* One method called on a newly built evaluator.
Call == op = "new" /\ \E m \in Methods : Invoke(m)

EvalNext == Call

SpecEval == EvalInit /\ [][EvalNext]_vars

(* Any sequence of calls on one evaluator, on the hands of two suits.      *)

CallHands ==
    {h \in Hands : \A i \in 1..HandSize :
        h[i][1] # ACE /\ h[i][2] \in {CLUBS, DIAMONDS}}

CallsInit == EvalInit /\ cards \in CallHands

CallAny == \E m \in Methods : Invoke(m)

CallsNext == CallAny

SpecCalls == CallsInit /\ [][CallsNext]_vars

----------------------------------------------------------------------------
(* A CardDeck and a PokerHand in the hands of any caller: the state after  *)
(* CardDeck(), and any sequence of calls of their methods.                 *)

MaxDeal == 6
MaxIndices == 2

\* The integers a caller passes as card indices: 1..5 name the five cards,
\* 0 is index -1 (the last card) and 6 is out of range.
IndexInputs == 0..(HandSize + 1)

IndexLists(n) == UNION {[1..k -> IndexInputs] : k \in 0..n}

NoEvaluator == cards = <<>> /\ again = FALSE

Init ==
    /\ deck \in Shuffles(DeckCards)
    /\ hand = <<>> /\ dealt = <<>>
    /\ op = "CardDeck" /\ arg = <<>> /\ ret = None /\ raised = ""
    /\ pc = "" /\ evals = 0
    /\ NoEvaluator

DealCard ==
    LET r == deal_card(deck)
    IN  /\ deck' = r.deck
        /\ dealt' = dealt \o r.cards
        /\ op' = "deal_card" /\ arg' = <<>> /\ ret' = r.cards
        /\ raised' = r.raised
        /\ UNCHANGED <<hand, cards, again, pc, evals>>

DealCards ==
    \E n \in 0..MaxDeal :
        LET r == deal_cards(deck, n)
        IN  /\ deck' = r.deck
            /\ dealt' = dealt \o r.cards
            /\ op' = "deal_cards" /\ arg' = <<n>> /\ ret' = r.cards
            /\ raised' = r.raised
            /\ UNCHANGED <<hand, cards, again, pc, evals>>

\* hand = PokerHand(deck): no hand is bound when the constructor raises.
NewHand ==
    LET r == PokerHand(deck)
    IN  /\ deck' = r.deck
        /\ dealt' = dealt \o r.cards
        /\ hand' = IF r.raised = "" THEN r.hand ELSE hand
        /\ evals' = IF r.raised = "" THEN 0 ELSE evals
        /\ op' = "PokerHand" /\ arg' = <<>> /\ ret' = None
        /\ raised' = r.raised
        /\ UNCHANGED <<cards, again, pc>>

ReplaceCards ==
    /\ hand # <<>>
    /\ \E indices \in IndexLists(MaxIndices) :
        LET r == replace_cards(hand, deck, indices)
        IN  /\ deck' = r.deck
            /\ hand' = r.hand
            /\ dealt' = dealt \o r.cards
            /\ op' = "replace_cards" /\ arg' = indices /\ ret' = None
            /\ raised' = r.raised
    /\ UNCHANGED <<cards, again, pc, evals>>

\* hand.evaluate(): the evaluator is built on the hand's own list.
Evaluate ==
    /\ hand # <<>>
    /\ op' = "evaluate" /\ arg' = <<>> /\ ret' = evaluate(hand) /\ raised' = ""
    /\ hand' = CardsAfter("evaluate", hand)
    /\ evals' = 1
    /\ UNCHANGED <<deck, dealt, cards, again, pc>>

Next ==
    \/ DealCard
    \/ DealCards
    \/ NewHand
    \/ ReplaceCards
    \/ Evaluate

Spec == Init /\ [][Next]_vars

----------------------------------------------------------------------------
(* main, src/poker.py lines 345-372.  pc names the statement that runs     *)
(* next: "start" (line 348), "ask_replace" (line 352), "ask_indices" (line *)
(* 354), "ask_again" (line 367); "return" after return 0 and "raise" after *)
(* an exception left main.                                                 *)

MaxReplace == 3

\* What the user types at line 354, after split(): a list of up to three
\* integers, or a longer list (only its length is read).
IndexAnswers ==
    IndexLists(MaxReplace) \cup {[i \in 1..(MaxReplace + 1) |-> i]}

MainInit ==
    /\ pc = "start"
    /\ deck = <<>> /\ hand = <<>> /\ dealt = <<>>
    /\ op = "new" /\ arg = <<>> /\ ret = None /\ raised = "" /\ evals = 0
    /\ NoEvaluator

\* The statements after hand = PokerHand(deck): the hand is bound and
\* displayed, or the exception leaves main.
DealHand(d) ==
    LET r == PokerHand(d)
    IN  /\ deck' = r.deck
        /\ dealt' = dealt \o r.cards
        /\ raised' = r.raised
        /\ hand' = IF r.raised = "" THEN r.hand ELSE hand
        /\ evals' = IF r.raised = "" THEN 0 ELSE evals
        /\ pc' = IF r.raised = "" THEN "ask_replace" ELSE "raise"
        /\ op' = "PokerHand" /\ arg' = <<>> /\ ret' = None

\* Lines 348-350: deck = CardDeck(); hand = PokerHand(deck); hand.display().
Start ==
    /\ pc = "start"
    /\ \E d \in Shuffles(Cardinality(Card)) : DealHand(d)
    /\ UNCHANGED <<cards, again>>

\* Line 365, hand.evaluate(), and on to the prompt of line 367.
EvaluateHand(h) ==
    /\ op' = "evaluate" /\ ret' = evaluate(h)
    /\ hand' = CardsAfter("evaluate", h)
    /\ evals' = evals + 1
    /\ pc' = "ask_again"

\* Line 352: "Do you want to replace any cards (y/n)?"
AskReplace ==
    /\ pc = "ask_replace"
    /\ \E answer \in {"y", "n"} :
        IF answer = "y"
        THEN /\ pc' = "ask_indices"
             /\ UNCHANGED <<op, arg, ret, raised, hand, evals>>
        ELSE /\ EvaluateHand(hand)
             /\ arg' = <<>> /\ raised' = ""
    /\ UNCHANGED <<deck, dealt, cards, again>>

\* Lines 353-363: the indices are read; more than three go back to line
\* 352, one to three are replaced and the hand is evaluated, none breaks
\* out of the loop to return 0.  numeric: every token typed is an integer
\* (int(i) raises ValueError otherwise).
AskIndices ==
    /\ pc = "ask_indices"
    /\ \E cards_to_replace \in IndexAnswers, numeric \in BOOLEAN :
        IF Len(cards_to_replace) > MaxReplace
        THEN /\ pc' = "ask_replace"
             /\ UNCHANGED <<op, arg, ret, raised, deck, hand, dealt, evals>>
        ELSE IF Len(cards_to_replace) > 0 /\ ~numeric
        THEN /\ pc' = "raise"
             /\ op' = "int" /\ arg' = <<>> /\ ret' = None
             /\ raised' = "ValueError"
             /\ UNCHANGED <<deck, hand, dealt, evals>>
        ELSE IF Len(cards_to_replace) > 0
        THEN LET r == replace_cards(hand, deck, cards_to_replace)
             IN  /\ deck' = r.deck
                 /\ dealt' = dealt \o r.cards
                 /\ arg' = cards_to_replace
                 /\ raised' = r.raised
                 /\ IF r.raised = ""
                    THEN EvaluateHand(r.hand)
                    ELSE /\ hand' = r.hand
                         /\ op' = "replace_cards" /\ ret' = None
                         /\ pc' = "raise"
                         /\ UNCHANGED evals
        ELSE /\ pc' = "return"
             /\ UNCHANGED <<op, arg, ret, raised, deck, hand, dealt, evals>>
    /\ UNCHANGED <<cards, again>>

\* Lines 367-371: "Play another hand (y/n)?"
AskAgain ==
    /\ pc = "ask_again"
    /\ \E answer \in {"y", "n"} :
        IF answer = "y"
        THEN DealHand(deck)
        ELSE /\ pc' = "return"
             /\ UNCHANGED <<op, arg, ret, raised, deck, hand, dealt, evals>>
    /\ UNCHANGED <<cards, again>>

MainNext ==
    \/ Start
    \/ AskReplace
    \/ AskIndices
    \/ AskAgain

SpecMain == MainInit /\ [][MainNext]_vars

----------------------------------------------------------------------------
(* What the claims speak of, stated on the hand as a set of cards.         *)

RanksOf(cs) == {cs[i][1] : i \in 1..Len(cs)}
SuitsOf(cs) == {cs[i][2] : i \in 1..Len(cs)}
Distinct(cs) == \A i, j \in 1..Len(cs) : i < j => cs[i] # cs[j]
RanksWith(cs, n) == {r \in RanksOf(cs) : Occurrences(cs, r) = n}
MaxOf(S) == CHOOSE x \in S : \A y \in S : y <= x
MinOf(S) == CHOOSE x \in S : \A y \in S : x <= y
Span(cs) == MaxOf(RanksOf(cs)) - MinOf(RanksOf(cs))
NoRepeat(cs) == Cardinality(RanksOf(cs)) = Len(cs)

\* The category fixed by the rank-multiplicity partition.
PartitionCategory(cs) ==
    CASE RanksWith(cs, 4) # {} -> "four of a kind"
      [] RanksWith(cs, 3) # {} /\ RanksWith(cs, 2) # {} -> "full house"
      [] RanksWith(cs, 3) # {} /\ RanksWith(cs, 2) = {} -> "three of a kind"
      [] Cardinality(RanksWith(cs, 2)) = 2 -> "two pairs"
      [] Cardinality(RanksWith(cs, 2)) = 1 /\ RanksWith(cs, 3) = {} -> "one pair"
      [] NoRepeat(cs) /\ Cardinality(SuitsOf(cs)) = 1 /\ Span(cs) = 4
            -> "straight flush"
      [] NoRepeat(cs) /\ Cardinality(SuitsOf(cs)) = 1 /\ Span(cs) # 4 -> "flush"
      [] NoRepeat(cs) /\ Cardinality(SuitsOf(cs)) # 1 /\ Span(cs) = 4
            -> "straight"
      [] NoRepeat(cs) /\ Cardinality(SuitsOf(cs)) # 1 /\ Span(cs) # 4
            -> "high card"

\* C1: on five pairwise-distinct cards evaluate reports one category, the
\* one fixed by the rank-multiplicity partition, suit uniformity and span.
C1_CategoryByPartition ==
    (op = "evaluate" /\ Distinct(cards)) => ret.category = PartitionCategory(cards)

C1_Witness ==
    /\ op = "evaluate" /\ Distinct(cards)
    /\ PartitionCategory(cards) = "full house" /\ ret.category = "full house"

\* C2: is_two_pairs returns (higher paired rank, lower paired rank) on a hand
\* with exactly two ranks of multiplicity 2, in any card order, else None.
C2_TwoPairsHighLow ==
    op = "is_two_pairs" =>
        ret = IF Cardinality(RanksWith(cards, 2)) = 2
              THEN <<MaxOf(RanksWith(cards, 2)), MinOf(RanksWith(cards, 2))>>
              ELSE None

Permuted(cs, p) == [i \in 1..Len(cs) |-> cs[p[i]]]

Checks == Methods \ {"evaluate"}

\* C3: every check returns the same value on every permutation of the five
\* cards.
C3_OrderIndependent ==
    op \in Checks =>
        \A p \in Permutations(1..HandSize) : Result(op, Permuted(cards, p)) = ret

\* C4: is_straight returns the highest rank iff no rank repeats and
\* max rank - min rank = 4 (Ace counted as 14 only); otherwise None.
C4_StraightIff ==
    op = "is_straight" =>
        ret = IF NoRepeat(cards) /\ Span(cards) = 4
              THEN <<MaxOf(RanksOf(cards))>>
              ELSE None

C4_Witness == op = "is_straight" /\ ret = <<MaxLowRank>>

Wheel == {ACE, DEUCE, TREY, FOUR, FIVE}
MixedWheel(cs) == RanksOf(cs) = Wheel /\ Cardinality(SuitsOf(cs)) > 1

\* C5: an Ace, Deuce, Trey, Four and Five not all of one suit, in any order,
\* evaluate to high card with high rank ACE; is_straight and
\* is_straight_flush return None on them.
C5_WheelIsHighCard ==
    MixedWheel(cards) =>
        /\ op = "evaluate" => (ret.category = "high card" /\ ret.value[1] = ACE)
        /\ op \in {"is_straight", "is_straight_flush"} => ret = None

C5_Witness ==
    MixedWheel(cards) /\ op = "evaluate" /\ ret.category = "high card"

\* C6 as claimed: is_three_of_a_kind matches only hands with one rank of
\* multiplicity 3 and no rank of multiplicity 2; None on every full house.
C6_ThreeExcludesFullHouse ==
    op = "is_three_of_a_kind" =>
        ret = IF RanksWith(cards, 3) # {} /\ RanksWith(cards, 2) = {}
              THEN <<MaxOf(RanksWith(cards, 3))>>
              ELSE None

\* C6 as amended: is_three_of_a_kind returns the 3x-repeated rank exactly on
\* the hands that have a rank of multiplicity 3, the full houses included.
C6_ThreeOnAnyTriple ==
    op = "is_three_of_a_kind" =>
        ret = IF RanksWith(cards, 3) # {}
              THEN <<MaxOf(RanksWith(cards, 3))>>
              ELSE None

C6_Witness ==
    /\ op = "is_three_of_a_kind" /\ PartitionCategory(cards) = "full house"
    /\ ret = <<MaxOf(RanksWith(cards, 3))>>

Range(s) == {s[i] : i \in 1..Len(s)}

\* C8: deal_cards(n) on a deck of k cards raises OutOfCards exactly when
\* n > k and returns n cards otherwise; deal_card raises exactly when k = 0.
C8_OutOfCardsOnlyWhenShort ==
    [][/\ op' = "deal_cards" =>
            /\ (raised' = "OutOfCards") <=> (arg'[1] > Len(deck))
            /\ raised' = "" => Len(ret') = arg'[1]
       /\ op' = "deal_card" =>
            /\ (raised' = "OutOfCards") <=> (Len(deck) = 0)
            /\ raised' = "" => Len(ret') = 1]_vars

\* C9: a hand that reaches evaluate() holds five pairwise-distinct cards,
\* no delivered card is still in the deck, and none was delivered twice.
C9_NoDuplicateCards ==
    /\ op = "evaluate" => (Len(hand) = HandSize /\ Distinct(hand))
    /\ Range(dealt) \cap Range(deck) = {}
    /\ Distinct(dealt)
    /\ Range(hand) \subseteq Range(dealt)

C9_Witness ==
    /\ op = "evaluate" /\ pc = "ask_again"
    /\ Len(dealt) > 2 * HandSize

\* C10: a hand is evaluated exactly once before the next hand is dealt or
\* the session returns.
C10_EvaluatedOncePerHand ==
    /\ pc \in {"ask_again", "return"} => evals = 1
    /\ pc \in {"ask_replace", "ask_indices"} => evals = 0

\* C11: no run of main ends with an OutOfCards exception that left main
\* unhandled, whether it was raised dealing a hand or replacing cards.
C11_OutOfCardsHandled == ~(pc = "raise" /\ raised = "OutOfCards")

\* C12: a call of deal_card, deal_cards, PokerHand or replace_cards that
\* raises OutOfCards leaves the deck and the hand as they were before it.
C12_OutOfCardsNoEffect ==
    [][raised' = "OutOfCards" => (deck' = deck /\ hand' = hand)]_vars

====
